---- MODULE Spec2Model ----
(***************************************************************************)
(* Model of the shai terminal table widget:                                *)
(*   - the column width solver of render_table   (src/shai/ui/table.py)    *)
(*   - the selection loop of grid_select          (src/shai/ui/table.py)   *)
(*   - the legacy grid_select and getch           (src/shai/ui/select.py)  *)
(*   - the cell wrapper and the drawing loop      (src/shai/ui/table.py)   *)
(*   - visible_len and crop_visible               (src/shai/util/ansi.py)  *)
(* Optional[int] values are modelled as sequences: <<>> is None and <<v>>  *)
(* is the integer v.  A list of menu labels is modelled by the sequence    *)
(* <<1, .., n>> of its item positions (labels are only ever drawn).        *)
(***************************************************************************)
EXTENDS Integers, Sequences, FiniteSets, TLC

\* ---------------------------------------------------------------- bounds
MaxRows == 2        \* longest caller-supplied row list
MaxItems == 3       \* longest list a row-menu provider returns
MaxSubCols == 2     \* largest submenu_cols argument
MaxCols == 2        \* longest ColSpec sequence handed to the solver
MaxMinWidth == 2    \* largest ColSpec.min_width
MaxWidth == 2       \* largest ColSpec.max_width that is set
MaxSample == 2      \* widest sampled cell or header
MaxTermW == 5       \* widest terminal
\* the same for tables whose ColSpecs leave max_width unset, as every
\* ColSpec built in cli.py and install_ui.py does
MaxPlainMin == 3    \* largest ColSpec.min_width
MaxPlainSample == 6 \* widest sampled cell or header
MaxPlainTermW == 5  \* widest terminal
MaxCalls == 2       \* provider calls counted per sub-menu visit
MaxTextLen == 5     \* longest cell text handed to the wrapper
MaxWrapWidth == 3   \* widest column the wrapper fills
MaxCropLen == 6     \* longest string handed to crop_visible
MaxCropWidth == 2   \* largest width crop_visible crops to
MaxDrawRows == 2    \* most rows of a drawn table
MaxRowHeight == 2   \* most wrapped lines of a drawn row
MaxDrawCols == 2    \* most columns of a drawn table
MaxDrawHeight == 3  \* largest max_height argument
MaxTermH == 7       \* tallest terminal a frame is drawn on
MaxFrames == 3      \* spinner frames written during one request

\* ------------------------------------------------- constants of table.py
gap == 2            \* render_table's default gap; grid_select never passes one
start_x == 0        \* render_table's default start_x
SampleCap == 200    \* sanity ceiling of one sampled width
Unbounded == 1000000    \* cs.max_width or 10**6
LoopCap == 10000    \* iteration cap of the remainder adjustment

\* ------------------------------------------------------- curses key codes
KEY_DOWN == 258
KEY_UP == 259
KEY_LEFT == 260
KEY_RIGHT == 261
KEY_RESIZE == 410
ERR == -1
ord_h == 104
ord_j == 106
ord_k == 107
ord_l == 108
ord_q == 113
ord_x == 120
LF == 10
CR == 13
ESC == 27

UpKeys == {KEY_UP, ord_k}
DownKeys == {KEY_DOWN, ord_j}
LeftKeys == {KEY_LEFT, ord_h}
RightKeys == {KEY_RIGHT, ord_l}
EnterKeys == {LF, CR}
CancelKeys == {ESC, ord_q}
\* every key class getch can deliver: bound keys, a resize event, a key that
\* no branch names (ord_x) and the 100 ms read timeout (ERR)
Keys == UpKeys \cup DownKeys \cup LeftKeys \cup RightKeys \cup EnterKeys
          \cup CancelKeys \cup {KEY_RESIZE, ord_x, ERR}

Max(a, b) == IF a >= b THEN a ELSE b
Min(a, b) == IF a <= b THEN a ELSE b

None == <<>>
Some(v) == <<v>>
ItemList(n) == [i \in 1..n |-> i]

VARIABLES
    impl,            \* the entry point the caller runs: table.py's
                     \* grid_select ("table"), select.py's grid_select
                     \* ("select") or select.py's getch ("getch")
    nrows,           \* len(rows) of the caller-supplied row list
    has_provider,    \* row_menu_provider is not None
    menu,            \* the provider as a pure function: row index -> list length
    raising,         \* the row indices for which the provider raises
    submenu_cols,    \* the submenu_cols argument
    pc,              \* "render", "getch", "done" (returned), "raised";
                     \* "setraw", "read", "returned" in select.py's getch
    term_mode,       \* the tty mode: "cooked", "cbreak" (curses), "raw"
    exc,             \* the exception raised inside the session, "" if none
    provider_calls,  \* provider calls since the last confirm key of Rows
                     \* mode, counted up to MaxCalls; 0 back in Rows mode
    sel_row, mode, sel_sub, submenu_items,   \* locals of inner()
    ch,              \* the key last returned by stdscr.getch()
    result,          \* the returned triple, once pc = "done"
    colspecs,        \* render_table's colspecs: [min_width, max_width, wrap]
    samples,         \* per column, the set of sampled widths (one per row)
    term_w,          \* w, the terminal width render_table reads
    layout,          \* what the width solver produced, once spc = "solved"
    text,            \* the ANSI-stripped text of a wrappable cell
    wrap_width,      \* widths[j] of the cell's column
    lines,           \* the cell's wrapped lines
    relines,         \* the wrapped lines, joined by newlines and wrapped again
    wpc,             \* "idle", "wrap", "wrapped", "rewrapped"
    crop_s,          \* crop_visible's s, a sequence of characters
    crop_width,      \* crop_visible's width
    crop_ellipsis,   \* crop_visible's ellipsis flag
    crop_out,        \* the string crop_visible returns
    cpc,             \* "idle", "crop", "cropped"
    row_heights,     \* render_table's row_heights, one entry per row
    d_ncols,         \* len(colspecs) of the drawn table
    max_height,      \* render_table's max_height
    header,          \* header is not None
    highlight_row,   \* Optional[int]
    highlight_cell,  \* Optional[(row, col)]
    normal_attr,     \* the normal_attr argument, a set of attribute bits
    style_fn,        \* style_fn is not None
    line_style_fn,   \* line_style_fn is not None
    d_i, d_k, d_j,   \* the loop indices of the next cell line to draw
    d_y,             \* the screen line of the next write
    last_write,      \* the last addnstr of a cell line, with the outcomes
                     \* of the two callbacks called for it
    written,         \* the (i, k, j) of the cell lines written so far
    header_y,        \* the screen line the header row was written at
    style_calls,     \* (i, j) -> number of style_fn calls for that cell
    line_calls,      \* (i, k, j) -> number of line_style_fn calls
    dpc,             \* "idle", "header", "rows", "returned", "raised"
    title,           \* grid_select's title is truthy
    term_h,          \* h, the terminal height one frame of inner() reads
    f_mode,          \* mode while the frame is drawn
    f_heights,       \* layout["row_heights"] of the frame's table
    f_nitems,        \* len(submenu_items) of the frame
    f_cols,          \* the submenu_cols argument of the frame
    frame_y,         \* y of inner(), the next line the frame writes
    table_max_h,     \* table_max_h of the frame
    table_ys,        \* the screen lines render_table wrote in the frame
    menu_ys,         \* the screen lines the prompt and the items were
                     \* written at in the frame
    f_r,             \* r, the next sub-menu item row to draw
    fpc,             \* "idle", "erase", "table", "prompt", "items",
                     \* "footer", "drawn", "raised"
    spinner,         \* fetch_suggestions' spinner argument
    fn_raises,       \* the request raises instead of returning
    stop_set,        \* the threading.Event stop: stop.is_set()
    mpc,             \* the main thread in fetch_suggestions: "idle",
                     \* "fetch", "call", "finally", "join", "returned",
                     \* "raised"
    tpc,             \* the spinner thread: "unstarted", "check", "write",
                     \* "sleep", "clear", "dead"
    nframes,         \* spinner frames written so far
    last_out,        \* the spinner thread's last write: "none", "frame",
                     \* "clear"
    late_writes,     \* spinner writes made after fetch_suggestions was left
    ws_exc,          \* the exception fetch_suggestions ends with, "" if none
    spc              \* "idle", "solve", "solved"

solver_vars == <<colspecs, samples, term_w, layout, spc>>

session_vars == <<impl, nrows, has_provider, menu, raising, submenu_cols, pc,
                  sel_row, mode, sel_sub, submenu_items, ch, result,
                  term_mode, exc, provider_calls>>

wrap_vars == <<text, wrap_width, lines, relines, wpc>>

crop_vars == <<crop_s, crop_width, crop_ellipsis, crop_out, cpc>>

draw_args == <<row_heights, d_ncols, max_height, header, highlight_row,
               highlight_cell, normal_attr, style_fn, line_style_fn>>

draw_vars == <<draw_args, d_i, d_k, d_j, d_y, last_write, written,
               header_y, style_calls, line_calls, dpc>>

pure_vars == <<wrap_vars, crop_vars, draw_vars>>

frame_vars == <<title, term_h, f_mode, f_heights, f_nitems, f_cols, frame_y,
                table_max_h, table_ys, menu_ys, f_r, fpc>>

spin_vars == <<spinner, fn_raises, stop_set, mpc, tpc, nframes, last_out,
               late_writes, ws_exc>>

app_vars == <<frame_vars, spin_vars>>

vars == <<session_vars, solver_vars, pure_vars, app_vars>>

config == <<impl, nrows, has_provider, menu, raising, submenu_cols,
            solver_vars, pure_vars, app_vars>>

\* the row indices the loop can pass to the provider for a list of n rows
ProviderArgs(n) == IF n = 0 THEN {-1, 0} ELSE 0..(n - 1)

\* row_menu_provider(sel_row) if row_menu_provider else []
CallProvider(r) == IF has_provider THEN ItemList(menu[r]) ELSE <<>>

\* the call row_menu_provider(r) raises instead of returning a list
ProviderRaises(r) == has_provider /\ r \in raising

\* ===================================================== width solver
\* (render_table, table.py lines 73-120).  Column indices are 1-based here
\* and 0-based in the source.
RECURSIVE SeqSum(_)
SeqSum(s) == IF s = <<>> THEN 0 ELSE s[1] + SeqSum(Tail(s))

SetMax(S) == CHOOSE x \in S : \A y \in S : y <= x

\* Python's  opt or d  on an Optional[int]: None and 0 are both falsy
OrElse(opt, d) == IF opt = None THEN d ELSE IF opt[1] = 0 THEN d ELSE opt[1]

\* the ColSpec values with 1 <= min_width <= max_width (max may be unset)
ColSpecSet ==
    {c \in [min_width : 1..MaxMinWidth,
            max_width : {None} \cup {Some(m) : m \in 1..MaxWidth},
            wrap : BOOLEAN] :
        c.max_width = None \/ c.min_width <= c.max_width[1]}

\* min(max(visible_len(cell_plain), visible_len(headers[j])), 200); the
\* model's sample v is the inner max(...)
Sample(v) == Min(v, SampleCap)

\* target = max(min_width, min(max(samples[j]) if samples[j] else min_width,
\*                             max_width or 10**6))
Ideal(cs, smp) ==
    Max(cs.min_width,
        Min(IF smp # {} THEN SetMax({Sample(v) : v \in smp}) ELSE cs.min_width,
            OrElse(cs.max_width, Unbounded)))

\* mutant: every column takes part in the leftover distribution
WrapCols_all(cs) == [n \in 1..Len(cs) |-> n]

\* [j for j, cs in enumerate(colspecs) if cs.wrap]
WrapCols(cs) ==
    LET F[n \in 0..Len(cs)] ==
            IF n = 0 THEN <<>>
            ELSE IF cs[n].wrap THEN Append(F[n - 1], n) ELSE F[n - 1]
    IN F[Len(cs)]

\* the  while leftover > 0 and wrap_cols  loop (lines 100-108)
RECURSIVE DistributeLeftover(_, _, _, _, _)
DistributeLeftover(cs, col_space, widths, leftover, k) ==
    LET wrap_cols == WrapCols(cs) IN
    IF ~(leftover > 0 /\ wrap_cols # <<>>) THEN widths
    ELSE LET j == wrap_cols[(k % Len(wrap_cols)) + 1]
             cap == OrElse(cs[j].max_width, col_space)
             add == Min(leftover, Max(0, cap - widths[j]))
         IN IF add = 0
            THEN IF k + 1 > 3 * Len(wrap_cols) THEN widths
                 ELSE DistributeLeftover(cs, col_space, widths, leftover, k + 1)
            ELSE DistributeLeftover(cs, col_space,
                                    [widths EXCEPT ![j] = @ + add],
                                    leftover - add, k + 1)

\* mutant: the adjustment forgets the floor at min_width
StepAllowed_noFloor(c, neww) ==
    c.max_width = None \/ neww <= c.max_width[1]

\* neww >= min_width and (max_width is None or neww <= max_width)
StepAllowed(c, neww) ==
    /\ neww >= c.min_width
    /\ (c.max_width = None \/ neww <= c.max_width[1])

\* candidates = [k for k, cs in enumerate(colspecs) if cs.wrap]
\*              or list(range(ncols))
Candidates(cs) ==
    IF WrapCols(cs) # <<>> THEN WrapCols(cs) ELSE [n \in 1..Len(cs) |-> n]

\* the  while diff != 0 and ncols  loop (lines 112-120), from iteration j.
\* When no candidate admits the step, every further iteration leaves widths
\* and diff as they are and only counts j up to the cap: the loop then ends
\* by the break with j = LoopCap + 1, which is what the first branch returns
\* without unrolling those iterations.
RECURSIVE AdjustRemainder(_, _, _, _)
AdjustRemainder(cs, widths, diff, j) ==
    IF diff = 0 \/ Len(cs) = 0 THEN [widths |-> widths, diff |-> diff, j |-> j]
    ELSE LET step == IF diff > 0 THEN 1 ELSE -1
             candidates == Candidates(cs)
             idx == candidates[(j % Len(candidates)) + 1]
             neww == widths[idx] + step
             ok == StepAllowed(cs[idx], neww)
             widths2 == IF ok THEN [widths EXCEPT ![idx] = neww] ELSE widths
             diff2 == IF ok THEN diff - step ELSE diff
         IN IF \A n \in 1..Len(candidates) :
                  ~StepAllowed(cs[candidates[n]], widths[candidates[n]] + step)
            THEN [widths |-> widths, diff |-> diff, j |-> LoopCap + 1]
            ELSE IF j + 1 > LoopCap
                 THEN [widths |-> widths2, diff |-> diff2, j |-> j + 1]
                 ELSE AdjustRemainder(cs, widths2, diff2, j + 1)

\* int(col_space * (ideal[j] / sum_ideal)).  The source computes this in
\* double precision; for every sum_ideal up to 16 (all the model reaches)
\* the result is the exact floor.
ScaledShare(col_space, ideal_j, sum_ideal) == (col_space * ideal_j) \div sum_ideal

NoLayout == [widths |-> <<>>, col_space |-> 0, branch |-> "", j |-> 0]

\* lines 73-120 of render_table: the widths for colspecs cs, samples smp and
\* terminal width w
SolveWidths(cs, smp, w) ==
    LET ncols == Len(cs)
        available == Max(0, w - start_x)
        total_gap == gap * (ncols - 1)
        col_space == Max(1, available - total_gap)
        ideal == [n \in 1..ncols |-> Ideal(cs[n], smp[n])]
        sum_ideal == IF SeqSum(ideal) = 0 THEN 1 ELSE SeqSum(ideal)
    IN IF sum_ideal <= col_space
       THEN LET widths == [n \in 1..ncols |->
                              Min(ideal[n], OrElse(cs[n].max_width, ideal[n]))]
                leftover == col_space - SeqSum(widths)
            IN [widths |-> DistributeLeftover(cs, col_space, widths, leftover, 0),
                col_space |-> col_space, branch |-> "fits", j |-> 0]
       ELSE LET widths == [n \in 1..ncols |->
                              Max(cs[n].min_width,
                                  ScaledShare(col_space, ideal[n], sum_ideal))]
                diff == col_space - SeqSum(widths)
                adj == AdjustRemainder(cs, widths, diff, 0)
            IN [widths |-> adj.widths, col_space |-> col_space,
                branch |-> "scaled", j |-> adj.j]


NoResult == [action |-> "", row |-> None, sub |-> None]
Result(a, r, s) == [action |-> a, row |-> r, sub |-> s]

\* the tty mode before the session starts, which termios.tcgetattr and
\* curses.initscr save
PriorMode == "cooked"

\* mutant: inner is run without curses.wrapper's finally clause
WrapperFinally_skipped == UNCHANGED term_mode

\* the finally clause of curses.wrapper: keypad(0), echo(), nocbreak() and
\* endwin() put the tty back into the mode saved by initscr, whether inner
\* returned or raised
WrapperFinally == term_mode' = PriorMode

\* the solver variables while render_table is not called
NoSolver ==
    /\ colspecs = <<>> /\ samples = <<>> /\ term_w = 1
    /\ layout = NoLayout /\ spc = "idle"

\* the wrapper variables while no cell is wrapped
NoWrap ==
    /\ text = <<>> /\ wrap_width = 1
    /\ lines = <<>> /\ relines = <<>> /\ wpc = "idle"

\* the crop variables while crop_visible is not called
NoCrop ==
    /\ crop_s = <<>> /\ crop_width = 0 /\ crop_ellipsis = TRUE
    /\ crop_out = <<>> /\ cpc = "idle"

\* no addnstr of a cell line yet
NoWrite == [i |-> 0, k |-> 0, j |-> 0, y |-> 0, attr |-> {},
            style |-> [kind |-> "none", attr |-> {}],
            line |-> [kind |-> "none", attr |-> {}], drawn |-> FALSE]

\* no callback was called yet
NoCalls == [c \in {} |-> 0]

\* one more call counted under key c
Bump(f, c) ==
    [x \in DOMAIN f \cup {c} |->
        IF x \in DOMAIN f THEN (IF x = c THEN f[x] + 1 ELSE f[x]) ELSE 1]

\* the drawing variables while render_table does not draw
NoDraw ==
    /\ row_heights = <<>> /\ d_ncols = 1 /\ max_height = 0
    /\ header = FALSE /\ highlight_row = None /\ highlight_cell = None
    /\ normal_attr = {} /\ style_fn = FALSE /\ line_style_fn = FALSE
    /\ d_i = 0 /\ d_k = 0 /\ d_j = 0 /\ d_y = 0
    /\ last_write = NoWrite /\ written = {} /\ header_y = None
    /\ style_calls = NoCalls /\ line_calls = NoCalls
    /\ dpc = "idle"

\* the frame variables while no frame is drawn
NoFrame ==
    /\ title = FALSE /\ term_h = 1 /\ f_mode = "rows" /\ f_heights = <<>>
    /\ f_nitems = 0 /\ f_cols = 1 /\ frame_y = 0 /\ table_max_h = 0
    /\ table_ys = {} /\ menu_ys = {} /\ f_r = 0 /\ fpc = "idle"

\* the spinner variables while fetch_suggestions is not called
NoSpin ==
    /\ spinner = FALSE /\ fn_raises = FALSE /\ stop_set = FALSE
    /\ mpc = "idle" /\ tpc = "unstarted" /\ nframes = 0
    /\ last_out = "none" /\ late_writes = 0 /\ ws_exc = ""

NoApp == NoFrame /\ NoSpin

Init ==
    /\ impl \in {"table", "select", "getch"}
    /\ nrows \in 0..MaxRows
    /\ has_provider \in BOOLEAN
    /\ menu \in [ProviderArgs(nrows) -> 0..MaxItems]
    /\ (~has_provider => \A r \in DOMAIN menu : menu[r] = 0)
    /\ raising \in SUBSET ProviderArgs(nrows)
    /\ (~has_provider => raising = {})
    /\ \A r \in raising : menu[r] = 0
    /\ submenu_cols \in 0..MaxSubCols
    /\ pc = IF impl = "getch" THEN "setraw" ELSE "render"
    \* curses.wrapper has called initscr(), noecho() and cbreak() when inner
    \* starts
    /\ term_mode = IF impl = "table" THEN "cbreak" ELSE PriorMode
    /\ exc = ""
    /\ provider_calls = 0
    /\ sel_row = 0 /\ mode = "rows" /\ sel_sub = 0
    /\ submenu_items = <<>>
    /\ ch = ERR
    /\ result = NoResult
    /\ NoSolver /\ NoWrap /\ NoCrop /\ NoDraw /\ NoApp

\* ------------------------------------------------------------ table.py
\* one pass of the drawing half of the loop body, up to stdscr.refresh()
Render ==
    /\ impl = "table" /\ pc = "render"
    /\ submenu_items' = IF mode = "submenu" THEN CallProvider(sel_row)
                        ELSE submenu_items
    /\ provider_calls' = IF mode = "submenu" /\ has_provider
                          THEN Min(provider_calls + 1, MaxCalls)
                          ELSE provider_calls
    /\ pc' = "getch"
    /\ UNCHANGED <<config, sel_row, mode, sel_sub, ch, result, term_mode, exc>>

\* mutant: a read timeout ends the session as quit does
Timeout_quits ==
    /\ impl = "table" /\ pc = "getch"
    /\ ch' = ERR
    /\ result' = Result("quit", None, None)
    /\ pc' = "done"
    /\ WrapperFinally
    /\ UNCHANGED <<config, sel_row, mode, sel_sub, submenu_items,
                 exc, provider_calls>>

\* ch == -1: the read timed out, continue
Timeout ==
    /\ impl = "table" /\ pc = "getch"
    /\ ch' = ERR
    /\ pc' = "render"
    /\ UNCHANGED <<config, sel_row, mode, sel_sub, submenu_items, result,
                 term_mode, exc, provider_calls>>

RowsUp ==
    /\ impl = "table" /\ pc = "getch" /\ mode = "rows"
    /\ ch' \in UpKeys
    /\ sel_row' = Max(0, sel_row - 1)
    /\ pc' = "render"
    /\ UNCHANGED <<config, mode, sel_sub, submenu_items, result,
                 term_mode, exc, provider_calls>>

\* mutant: 'down' on the last row wraps to the first
RowsDown_wraps ==
    /\ impl = "table" /\ pc = "getch" /\ mode = "rows"
    /\ ch' \in DownKeys
    /\ sel_row' = IF sel_row + 1 >= nrows THEN 0 ELSE sel_row + 1
    /\ pc' = "render"
    /\ UNCHANGED <<config, mode, sel_sub, submenu_items, result,
                 term_mode, exc, provider_calls>>

RowsDown ==
    /\ impl = "table" /\ pc = "getch" /\ mode = "rows"
    /\ ch' \in DownKeys
    /\ sel_row' = Min(nrows - 1, sel_row + 1)
    /\ pc' = "render"
    /\ UNCHANGED <<config, mode, sel_sub, submenu_items, result,
                 term_mode, exc, provider_calls>>

\* mutant: an empty provider list still opens the sub-menu
RowsConfirm_emptyMenuOpens ==
    /\ impl = "table" /\ pc = "getch" /\ mode = "rows"
    /\ ch' \in EnterKeys
    /\ ~ProviderRaises(sel_row)
    /\ submenu_items' = CallProvider(sel_row)
    /\ IF has_provider
       THEN /\ mode' = "submenu" /\ sel_sub' = 0
            /\ provider_calls' = 1
            /\ UNCHANGED term_mode
            /\ pc' = "render"
            /\ UNCHANGED result
       ELSE /\ result' = Result("row-selected", Some(sel_row), None)
            /\ provider_calls' = IF has_provider THEN 1 ELSE 0
            /\ WrapperFinally
            /\ pc' = "done"
            /\ UNCHANGED <<mode, sel_sub>>
    /\ UNCHANGED <<config, sel_row, exc>>

\* mutant: entering the sub-menu keeps the sub-index of the previous visit
RowsConfirm_keepsSub ==
    /\ impl = "table" /\ pc = "getch" /\ mode = "rows"
    /\ ch' \in EnterKeys
    /\ ~ProviderRaises(sel_row)
    /\ submenu_items' = CallProvider(sel_row)
    /\ IF submenu_items' # <<>>
       THEN /\ mode' = "submenu"
            /\ provider_calls' = 1
            /\ UNCHANGED term_mode
            /\ pc' = "render"
            /\ UNCHANGED <<result, sel_sub>>
       ELSE /\ result' = Result("row-selected", Some(sel_row), None)
            /\ provider_calls' = IF has_provider THEN 1 ELSE 0
            /\ WrapperFinally
            /\ pc' = "done"
            /\ UNCHANGED <<mode, sel_sub>>
    /\ UNCHANGED <<config, sel_row, exc>>

RowsConfirm ==
    /\ impl = "table" /\ pc = "getch" /\ mode = "rows"
    /\ ch' \in EnterKeys
    /\ ~ProviderRaises(sel_row)
    /\ submenu_items' = CallProvider(sel_row)
    /\ IF submenu_items' # <<>>
       THEN /\ mode' = "submenu" /\ sel_sub' = 0
            /\ provider_calls' = 1
            /\ UNCHANGED term_mode
            /\ pc' = "render"
            /\ UNCHANGED result
       ELSE /\ result' = Result("row-selected", Some(sel_row), None)
            /\ provider_calls' = IF has_provider THEN 1 ELSE 0
            /\ WrapperFinally
            /\ pc' = "done"
            /\ UNCHANGED <<mode, sel_sub>>
    /\ UNCHANGED <<config, sel_row, exc>>

\* mutant: quit reports the highlighted row
RowsQuit_withRow ==
    /\ impl = "table" /\ pc = "getch" /\ mode = "rows"
    /\ ch' \in CancelKeys
    /\ result' = Result("quit", Some(sel_row), None)
    /\ pc' = "done"
    /\ WrapperFinally
    /\ UNCHANGED <<config, sel_row, mode, sel_sub, submenu_items,
                 exc, provider_calls>>

RowsQuit ==
    /\ impl = "table" /\ pc = "getch" /\ mode = "rows"
    /\ ch' \in CancelKeys
    /\ result' = Result("quit", None, None)
    /\ pc' = "done"
    /\ WrapperFinally
    /\ UNCHANGED <<config, sel_row, mode, sel_sub, submenu_items,
                 exc, provider_calls>>

\* KEY_RESIZE (pass) and every key no branch of the Rows chain names
RowsOther ==
    /\ impl = "table" /\ pc = "getch" /\ mode = "rows"
    /\ ch' \in {KEY_RESIZE, ord_x} \cup LeftKeys \cup RightKeys
    /\ pc' = "render"
    /\ UNCHANGED <<config, sel_row, mode, sel_sub, submenu_items, result,
                 term_mode, exc, provider_calls>>

SubLeft ==
    /\ impl = "table" /\ pc = "getch" /\ mode = "submenu"
    /\ ch' \in LeftKeys
    /\ sel_sub' = Max(0, sel_sub - 1)
    /\ pc' = "render"
    /\ UNCHANGED <<config, sel_row, mode, submenu_items, result,
                 term_mode, exc, provider_calls>>

SubRight ==
    /\ impl = "table" /\ pc = "getch" /\ mode = "submenu"
    /\ ch' \in RightKeys
    /\ sel_sub' = Min(Len(submenu_items) - 1, sel_sub + 1)
    /\ pc' = "render"
    /\ UNCHANGED <<config, sel_row, mode, submenu_items, result,
                 term_mode, exc, provider_calls>>

SubUp ==
    /\ impl = "table" /\ pc = "getch" /\ mode = "submenu"
    /\ ch' \in UpKeys
    /\ sel_sub' = Max(0, sel_sub - Max(1, submenu_cols))
    /\ pc' = "render"
    /\ UNCHANGED <<config, sel_row, mode, submenu_items, result,
                 term_mode, exc, provider_calls>>

\* mutant: 'down' moves by one item, not by the grid stride
SubDown_byOne ==
    /\ impl = "table" /\ pc = "getch" /\ mode = "submenu"
    /\ ch' \in DownKeys
    /\ sel_sub' = Min(Len(submenu_items) - 1, sel_sub + 1)
    /\ pc' = "render"
    /\ UNCHANGED <<config, sel_row, mode, submenu_items, result,
                 term_mode, exc, provider_calls>>

SubDown ==
    /\ impl = "table" /\ pc = "getch" /\ mode = "submenu"
    /\ ch' \in DownKeys
    /\ sel_sub' = Min(Len(submenu_items) - 1, sel_sub + Max(1, submenu_cols))
    /\ pc' = "render"
    /\ UNCHANGED <<config, sel_row, mode, submenu_items, result,
                 term_mode, exc, provider_calls>>

\* mutant: confirm reports the first item, not the highlighted one
SubConfirm_firstItem ==
    /\ impl = "table" /\ pc = "getch" /\ mode = "submenu"
    /\ ch' \in EnterKeys
    /\ result' = Result("submenu-selected", Some(sel_row), Some(0))
    /\ pc' = "done"
    /\ WrapperFinally
    /\ UNCHANGED <<config, sel_row, mode, sel_sub, submenu_items,
                 exc, provider_calls>>

SubConfirm ==
    /\ impl = "table" /\ pc = "getch" /\ mode = "submenu"
    /\ ch' \in EnterKeys
    /\ result' = Result("submenu-selected", Some(sel_row), Some(sel_sub))
    /\ pc' = "done"
    /\ WrapperFinally
    /\ UNCHANGED <<config, sel_row, mode, sel_sub, submenu_items,
                 exc, provider_calls>>

\* mutant: Esc in the sub-menu quits the session as it does in Rows mode
SubCancel_quits ==
    /\ impl = "table" /\ pc = "getch" /\ mode = "submenu"
    /\ ch' \in CancelKeys
    /\ result' = Result("quit", None, None)
    /\ pc' = "done"
    /\ WrapperFinally
    /\ UNCHANGED <<config, sel_row, mode, sel_sub, submenu_items,
                 exc, provider_calls>>

SubCancel ==
    /\ impl = "table" /\ pc = "getch" /\ mode = "submenu"
    /\ ch' \in CancelKeys
    /\ mode' = "rows"
    /\ pc' = "render"
    /\ provider_calls' = 0
    /\ UNCHANGED <<config, sel_row, sel_sub, submenu_items, result,
                 term_mode, exc>>

\* KEY_RESIZE (pass) and every key no branch of the Submenu chain names
SubOther ==
    /\ impl = "table" /\ pc = "getch" /\ mode = "submenu"
    /\ ch' \in {KEY_RESIZE, ord_x}
    /\ pc' = "render"
    /\ UNCHANGED <<config, sel_row, mode, sel_sub, submenu_items, result,
                 term_mode, exc, provider_calls>>

\* Enter on a row for which row_menu_provider(sel_row) raises: nothing in
\* inner catches it, curses.wrapper restores the tty and re-raises
RowsConfirmRaises ==
    /\ impl = "table" /\ pc = "getch" /\ mode = "rows"
    /\ ch' \in EnterKeys
    /\ ProviderRaises(sel_row)
    /\ exc' = "ProviderError"
    /\ pc' = "raised"
    /\ WrapperFinally
    /\ UNCHANGED <<config, sel_row, mode, sel_sub, submenu_items, result,
                 provider_calls>>

\* a draw call of the loop body (curs_set, addnstr at a position outside
\* the window) raises curses.error: nothing in inner catches it
RenderRaises ==
    /\ impl = "table" /\ pc = "render"
    /\ exc' = "curses.error"
    /\ pc' = "raised"
    /\ WrapperFinally
    /\ UNCHANGED <<config, sel_row, mode, sel_sub, submenu_items, ch, result,
                 provider_calls>>

\* SIGINT while stdscr.getch() waits for a key: getch raises
\* KeyboardInterrupt, which no except clause of table.py names
Interrupt ==
    /\ impl = "table" /\ pc = "getch"
    /\ exc' = "KeyboardInterrupt"
    /\ pc' = "raised"
    /\ WrapperFinally
    /\ UNCHANGED <<config, sel_row, mode, sel_sub, submenu_items, ch, result,
                 provider_calls>>

\* ----------------------------------------------------------- select.py
\* The first loop pass calls render_table(rows, colspecs, highlight=...):
\* render_table has no 'highlight' parameter and needs three positional
\* arguments, so the call raises TypeError before any key is read.
SelectRender ==
    /\ impl = "select" /\ pc = "render"
    /\ pc' = "raised"
    /\ exc' = "TypeError"
    /\ UNCHANGED <<config, sel_row, mode, sel_sub, submenu_items, ch, result,
                 term_mode, provider_calls>>

\* getch of select.py: old = tcgetattr(fd); try: tty.setraw(fd)
GetchSetRaw ==
    /\ impl = "getch" /\ pc = "setraw"
    /\ term_mode' = "raw"
    /\ pc' = "read"
    /\ UNCHANGED <<config, sel_row, mode, sel_sub, submenu_items, ch, result,
                 exc, provider_calls>>

\* ch = sys.stdin.read(3); finally: tcsetattr(fd, TCSADRAIN, old); return ch
GetchRead ==
    /\ impl = "getch" /\ pc = "read"
    /\ ch' \in Keys \ {ERR}
    /\ term_mode' = PriorMode
    /\ pc' = "returned"
    /\ UNCHANGED <<config, sel_row, mode, sel_sub, submenu_items, result,
                 exc, provider_calls>>

\* SIGINT while sys.stdin.read(3) waits: the finally clause still runs
GetchInterrupt ==
    /\ impl = "getch" /\ pc = "read"
    /\ exc' = "KeyboardInterrupt"
    /\ term_mode' = PriorMode
    /\ pc' = "raised"
    /\ UNCHANGED <<config, sel_row, mode, sel_sub, submenu_items, ch, result,
                 provider_calls>>

Next ==
    \/ Render
    \/ Timeout
    \/ RowsUp
    \/ RowsDown
    \/ RowsConfirm
    \/ RowsQuit
    \/ RowsOther
    \/ SubLeft
    \/ SubRight
    \/ SubUp
    \/ SubDown
    \/ SubConfirm
    \/ SubCancel
    \/ SubOther
    \/ RowsConfirmRaises
    \/ RenderRaises
    \/ Interrupt
    \/ SelectRender
    \/ GetchSetRaw
    \/ GetchRead
    \/ GetchInterrupt

Spec == Init /\ [][Next]_vars

\* ================================================ solver specifications
\* the sampled widths of the table render_table is handed: no row, or one
\* row whose cells (and headers) are at most maxs wide
SampleSets(n, maxs) ==
    {[j \in 1..n |-> {}]} \cup
    {[j \in 1..n |-> {f[j]}] : f \in [1..n -> 0..maxs]}

\* the session variables while no selection session runs
NoSession ==
    /\ impl = "table" /\ nrows = 0 /\ has_provider = FALSE
    /\ menu = [r \in ProviderArgs(0) |-> 0]
    /\ submenu_cols = 1
    /\ pc = "idle"
    /\ sel_row = 0 /\ mode = "rows" /\ sel_sub = 0
    /\ submenu_items = <<>>
    /\ ch = ERR
    /\ result = NoResult
    /\ raising = {}
    /\ term_mode = PriorMode
    /\ exc = ""
    /\ provider_calls = 0

\* a caller holds a ColSpec sequence and a terminal, before it calls
\* render_table
InitSolver ==
    /\ NoSession /\ NoApp
    /\ \E n \in 0..MaxCols : colspecs \in [1..n -> ColSpecSet]
    /\ samples = [j \in 1..Len(colspecs) |-> {}]
    /\ term_w \in 1..MaxTermW
    /\ layout = NoLayout
    /\ spc = "solve"
    /\ NoWrap /\ NoCrop /\ NoDraw

\* the ColSpec values with max_width left unset
PlainColSpecSet ==
    [min_width : 1..MaxPlainMin, max_width : {None}, wrap : BOOLEAN]

InitSolverPlain ==
    /\ NoSession /\ NoApp
    /\ \E n \in 0..MaxCols : colspecs \in [1..n -> PlainColSpecSet]
    /\ samples = [j \in 1..Len(colspecs) |-> {}]
    /\ term_w \in 1..MaxPlainTermW
    /\ layout = NoLayout
    /\ spc = "solve"
    /\ NoWrap /\ NoCrop /\ NoDraw

\* render_table is called with rows whose sampled widths are at most maxs
\* and computes the column widths
Solve(maxs) ==
    /\ spc = "solve"
    /\ samples' \in SampleSets(Len(colspecs), maxs)
    /\ layout' = SolveWidths(colspecs, samples', term_w)
    /\ spc' = "solved"
    /\ UNCHANGED <<session_vars, colspecs, term_w, pure_vars, app_vars>>

NextSolver == Solve(MaxSample)

SpecSolver == InitSolver /\ [][NextSolver]_vars

NextSolverPlain == Solve(MaxPlainSample)

SpecSolverPlain == InitSolverPlain /\ [][NextSolverPlain]_vars

\* ================================================ util/ansi.py
\* A string is the sequence of its characters.
EscChar == "\\033"
Ellipsis == "..."       \* the one-character glyph U+2026
CropAlphabet == {EscChar, "[", "1", "m", "a"}

\* the strings of at most n characters
Strings(n) == UNION {[1..k -> CropAlphabet] : k \in 0..n}

\* ANSI_RE.match(s, i): the index of the last character of the match of
\* \x1b\[[0-9;]*m that starts at index i, 0 if there is none
AnsiMatchEnd(s, i) ==
    IF i + 1 <= Len(s) /\ s[i] = EscChar /\ s[i + 1] = "["
    THEN LET stop == {k \in (i + 2)..Len(s) : s[k] \notin {"1", ";"}}
         IN IF stop = {} THEN 0
            ELSE LET k == CHOOSE x \in stop : \A y \in stop : x <= y
                 IN IF s[k] = "m" THEN k ELSE 0
    ELSE 0

\* ANSI_RE.sub("", s), scanning s from index i
RECURSIVE StripFrom(_, _)
StripFrom(s, i) ==
    IF i > Len(s) THEN <<>>
    ELSE LET e == AnsiMatchEnd(s, i)
         IN IF e # 0 THEN StripFrom(s, e + 1)
            ELSE <<s[i]>> \o StripFrom(s, i + 1)

strip_ansi(s) == StripFrom(s, 1)

visible_len(s) == Len(strip_ansi(s))

\* "".join(out)
RECURSIVE Join(_)
Join(out) == IF out = <<>> THEN <<>> ELSE Head(out) \o Join(Tail(out))

\* the first while loop of crop_visible: out is a list of whole escape
\* sequences and single characters
RECURSIVE CropLoop(_, _, _, _, _)
CropLoop(s, width, i, vis, out) ==
    IF i <= Len(s) /\ vis < width
    THEN LET e == IF s[i] = EscChar THEN AnsiMatchEnd(s, i) ELSE 0
         IN IF e # 0
            THEN CropLoop(s, width, e + 1, vis, Append(out, SubSeq(s, i, e)))
            ELSE CropLoop(s, width, i + 1, vis + 1, Append(out, <<s[i]>>))
    ELSE out

\* mutant: the pop loop stops one element early
PopNeeded_late(out, width) == out # <<>> /\ visible_len(Join(out)) > width

\* while out and visible_len("".join(out)) >= width
PopNeeded(out, width) == out # <<>> /\ visible_len(Join(out)) >= width

\* the pop loop in front of out.append(the ellipsis)
RECURSIVE PopLoop(_, _)
PopLoop(out, width) ==
    IF PopNeeded(out, width) THEN PopLoop(SubSeq(out, 1, Len(out) - 1), width)
    ELSE out

crop_visible(s, width, ellipsis) ==
    IF width <= 0 THEN <<>>
    ELSE LET out == CropLoop(s, width, 1, 0, <<>>)
         IN IF ellipsis /\ visible_len(s) > width /\ width >= 2
            THEN Join(Append(PopLoop(out, width), <<Ellipsis>>))
            ELSE Join(out)

\* a caller holds a string, a width and the ellipsis flag
InitCrop ==
    /\ NoSession /\ NoApp /\ NoSolver /\ NoWrap /\ NoDraw
    /\ crop_s \in Strings(MaxCropLen)
    /\ crop_width \in 0..MaxCropWidth
    /\ crop_ellipsis \in BOOLEAN
    /\ crop_out = <<>>
    /\ cpc = "crop"

Crop ==
    /\ cpc = "crop"
    /\ crop_out' = crop_visible(crop_s, crop_width, crop_ellipsis)
    /\ cpc' = "cropped"
    /\ UNCHANGED <<session_vars, solver_vars, app_vars,
                   wrap_vars, draw_vars,
                   crop_s, crop_width, crop_ellipsis>>

NextCrop == Crop

SpecCrop == InitCrop /\ [][NextCrop]_vars

\* ================================================= the cell wrapper
\* (_wrap_visible and the wrap branch of render_table).  A text is the
\* sequence of its characters.
SP == " "
NL == "\n"
WrapAlphabet == {"a", SP, NL}

\* the texts of at most n characters
Texts(n) == UNION {[1..k -> WrapAlphabet] : k \in 0..n}

\* str.splitlines(): the segments between line breaks, without a final
\* empty segment
RECURSIVE splitlines(_)
splitlines(t) ==
    IF t = <<>> THEN <<>>
    ELSE LET brk == {k \in 1..Len(t) : t[k] = NL}
         IN IF brk = {} THEN <<t>>
            ELSE LET k == CHOOSE x \in brk : \A y \in brk : x <= y
                 IN <<SubSeq(t, 1, k - 1)>>
                      \o splitlines(SubSeq(t, k + 1, Len(t)))

\* str.split(): the maximal runs of non-whitespace characters
RECURSIVE split(_)
split(t) ==
    LET ink == {k \in 1..Len(t) : t[k] \notin {SP, NL}}
    IN IF ink = {} THEN <<>>
       ELSE LET a == CHOOSE x \in ink : \A y \in ink : x <= y
                ws == {k \in a..Len(t) : t[k] \in {SP, NL}}
                b == IF ws = {} THEN Len(t) + 1
                     ELSE CHOOSE x \in ws : \A y \in ws : x <= y
            IN <<SubSeq(t, a, b - 1)>> \o split(SubSeq(t, b, Len(t)))

\* mutant: a word is still added when it overshoots the width by one
Fits_loose(cur_len, add, width) == cur_len + add <= width + 1

\* if cur_len + add <= width
Fits(cur_len, add, width) == cur_len + add <= width

\* the for loop of _wrap_visible over the remaining words
RECURSIVE WrapWords(_, _, _, _, _)
WrapWords(words, ls, cur, cur_len, width) ==
    IF words = <<>> THEN [lines |-> ls, cur |-> cur]
    ELSE LET w == Head(words)
             lw == visible_len(w)
             add == (IF cur # <<>> THEN 1 ELSE 0) + lw
         IN IF Fits(cur_len, add, width)
            THEN IF cur # <<>>
                 THEN WrapWords(Tail(words), ls, cur \o <<SP>> \o w,
                                cur_len + add, width)
                 ELSE WrapWords(Tail(words), ls, w, lw, width)
            ELSE WrapWords(Tail(words), Append(ls, cur), w, lw, width)

wrap_visible(t, width) ==
    IF t = <<>> THEN << <<>> >>
    ELSE LET r == WrapWords(split(t), <<>>, <<>>, 0, width)
             ls == IF r.cur # <<>> THEN Append(r.lines, r.cur) ELSE r.lines
         IN IF ls = <<>> THEN << <<>> >> ELSE ls

\* lines.extend(_wrap_visible(part, widths[j])) for every part
RECURSIVE WrapParts(_, _)
WrapParts(parts, width) ==
    IF parts = <<>> THEN <<>>
    ELSE wrap_visible(Head(parts), width) \o WrapParts(Tail(parts), width)

\* the wrap branch of render_table for one cell: lines or [""]
WrapCell(plain, width) ==
    LET ls == WrapParts(splitlines(plain), width)
    IN IF ls = <<>> THEN << <<>> >> ELSE ls

\* "\n".join(lines)
RECURSIVE JoinNL(_)
JoinNL(ls) ==
    IF ls = <<>> THEN <<>>
    ELSE IF Len(ls) = 1 THEN ls[1]
    ELSE ls[1] \o <<NL>> \o JoinNL(Tail(ls))

\* a caller holds the text of a wrappable cell and the column's width
InitWrap ==
    /\ NoSession /\ NoApp /\ NoSolver /\ NoCrop /\ NoDraw
    /\ text \in Texts(MaxTextLen)
    /\ wrap_width \in 1..MaxWrapWidth
    /\ lines = <<>> /\ relines = <<>>
    /\ wpc = "wrap"

\* render_table wraps the cell
Wrap ==
    /\ wpc = "wrap"
    /\ lines' = WrapCell(text, wrap_width)
    /\ wpc' = "wrapped"
    /\ UNCHANGED <<session_vars, solver_vars, app_vars,
                   crop_vars, draw_vars,
                   text, wrap_width, relines>>

\* the wrapped lines are joined by newlines and go through the wrap branch
\* once more
Rewrap ==
    /\ wpc = "wrapped"
    /\ relines' = WrapCell(JoinNL(lines), wrap_width)
    /\ wpc' = "rewrapped"
    /\ UNCHANGED <<session_vars, solver_vars, app_vars,
                   crop_vars, draw_vars,
                   text, wrap_width, lines>>

NextWrap == Wrap \/ Rewrap

SpecWrap == InitWrap /\ [][NextWrap]_vars

\* ======================================== the drawing loop of render_table
\* (table.py lines 150-198).  An attribute word is the set of its bits and
\* a | b is their union.  Row, line and column indices are 0-based as in
\* the code; row_heights is 1-based.
start_y == 0
highlight_attr == {"A_REVERSE"}

\* what one call of a style callback does: it returns an attribute word,
\* returns a value int() rejects, or raises an Exception; "none" stands for
\* a callback that is None and is not called
Returned(a) == [kind |-> "ok", attr |-> a]
Raises == [kind |-> "raise", attr |-> {}]
Invalid == [kind |-> "invalid", attr |-> {}]
NotCalled == [kind |-> "none", attr |-> {}]

StyleOutcomes == IF style_fn THEN {Returned({"A_BOLD"}), Raises, Invalid}
                 ELSE {NotCalled}
LineOutcomes == IF line_style_fn THEN {Returned({"A_DIM"}), Raises, Invalid}
                ELSE {NotCalled}

\* try: base_attr = base_attr | int(fn(...)) except Exception: pass
OrStyle(base_attr, out) ==
    IF out.kind = "ok" THEN base_attr \cup out.attr ELSE base_attr

\* mutant: the highlight is applied first and the callbacks are or-ed on top
CellAttr_styleOverHighlight(i, j, so, lo) ==
    LET hl == \/ (highlight_cell # None /\ highlight_cell = <<i, j>>)
              \/ (highlight_row # None /\ i = highlight_row[1])
        a0 == IF hl THEN highlight_attr ELSE normal_attr
    IN OrStyle(OrStyle(a0, so), lo)

\* the attribute of cell (i, j) for one of its lines (table.py 171-185)
CellAttr(i, j, so, lo) ==
    LET a2 == OrStyle(OrStyle(normal_attr, so), lo)
        a3 == IF highlight_cell # None /\ highlight_cell = <<i, j>>
              THEN highlight_attr ELSE a2
    IN IF highlight_row # None /\ i = highlight_row[1]
       THEN highlight_attr ELSE a3

\* a caller has solved the widths and wrapped the cells: the table has
\* Len(row_heights) rows of ncols cells
InitDraw ==
    /\ NoSession /\ NoApp /\ NoSolver /\ NoWrap /\ NoCrop
    /\ \E n \in 0..MaxDrawRows : row_heights \in [1..n -> 1..MaxRowHeight]
    /\ d_ncols \in 1..MaxDrawCols
    /\ max_height \in 0..MaxDrawHeight
    /\ header \in BOOLEAN
    /\ highlight_row \in {None} \cup {Some(r) : r \in 0..(Len(row_heights) - 1)}
    /\ highlight_cell \in {None, <<0, 0>>}
    /\ normal_attr \in {{}, {"A_UNDERLINE"}}
    /\ style_fn \in BOOLEAN
    /\ line_style_fn \in BOOLEAN
    /\ d_i = 0 /\ d_k = 0 /\ d_j = 0 /\ d_y = start_y
    /\ last_write = NoWrite /\ written = {} /\ header_y = None
    /\ style_calls = NoCalls /\ line_calls = NoCalls
    /\ dpc = "header"

\* the header row: drawn whenever header is not None, then y += 1
DrawHeader ==
    /\ dpc = "header"
    /\ header_y' = IF header THEN Some(d_y) ELSE None
    /\ d_y' = IF header THEN d_y + 1 ELSE d_y
    /\ dpc' = "rows"
    /\ UNCHANGED <<session_vars, solver_vars, app_vars,
                   wrap_vars, crop_vars,
                   draw_args, d_i, d_k, d_j, last_write, written,
                   style_calls, line_calls>>

\* the loops have a cell line left and the line is above the clip
CellLinePending ==
    /\ dpc = "rows"
    /\ d_i < Len(row_heights)
    /\ ~(d_y >= start_y + max_height)

\* the loop indices after cell (d_i, d_k, d_j)
Advance ==
    IF d_j + 1 < d_ncols THEN UNCHANGED <<d_i, d_k, d_y>> /\ d_j' = d_j + 1
    ELSE /\ d_j' = 0 /\ d_y' = d_y + 1
         /\ IF d_k + 1 < row_heights[d_i + 1]
            THEN UNCHANGED d_i /\ d_k' = d_k + 1
            ELSE d_i' = d_i + 1 /\ d_k' = 0

\* the calls the body of the j loop makes for cell line (d_i, d_k, d_j):
\* style_fn(i, j, text) if style_fn, line_style_fn(i, j, k, line) if
\* line_style_fn
CountCalls ==
    /\ style_calls' = IF style_fn THEN Bump(style_calls, <<d_i, d_j>>)
                       ELSE style_calls
    /\ line_calls' = IF line_style_fn
                      THEN Bump(line_calls, <<d_i, d_k, d_j>>)
                      ELSE line_calls

\* mutant: an exception of a style callback leaves render_table
DrawCellLine_aborts ==
    /\ CellLinePending
    /\ \E so \in StyleOutcomes, lo \in LineOutcomes :
          IF so.kind = "raise" \/ lo.kind = "raise"
          THEN /\ dpc' = "raised"
               /\ UNCHANGED <<d_i, d_k, d_j, d_y, last_write, written,
                               style_calls, line_calls>>
          ELSE /\ last_write' = [i |-> d_i, k |-> d_k, j |-> d_j, y |-> d_y,
                                 attr |-> CellAttr(d_i, d_j, so, lo),
                                 style |-> so, line |-> lo, drawn |-> TRUE]
               /\ written' = written \cup {<<d_i, d_k, d_j>>}
               /\ CountCalls
               /\ Advance
               /\ UNCHANGED dpc
    /\ UNCHANGED <<session_vars, solver_vars, app_vars,
                   wrap_vars, crop_vars,
                   draw_args, header_y>>

\* one pass of the body of the j loop: both callbacks are called, the
\* attribute is chosen and the line of the cell is written
DrawCellLine ==
    /\ CellLinePending
    /\ \E so \in StyleOutcomes, lo \in LineOutcomes :
          last_write' = [i |-> d_i, k |-> d_k, j |-> d_j, y |-> d_y,
                         attr |-> CellAttr(d_i, d_j, so, lo),
                         style |-> so, line |-> lo, drawn |-> TRUE]
    /\ written' = written \cup {<<d_i, d_k, d_j>>}
    /\ CountCalls
    /\ Advance
    /\ UNCHANGED <<session_vars, solver_vars, app_vars,
                   wrap_vars, crop_vars,
                   draw_args, header_y, dpc>>

\* the loops end (no row left, or y reached the clip) and render_table
\* returns the layout
DrawReturn ==
    /\ dpc = "rows"
    /\ ~CellLinePending
    /\ dpc' = "returned"
    /\ UNCHANGED <<session_vars, solver_vars, app_vars,
                   wrap_vars, crop_vars,
                   draw_args, d_i, d_k, d_j, d_y, last_write, written,
                   header_y, style_calls, line_calls>>

NextDraw == DrawHeader \/ DrawCellLine \/ DrawReturn

SpecDraw == InitDraw /\ [][NextDraw]_vars

\* ------------------------------------------- one frame of grid_select
\* One pass of the body of inner()'s while loop, up to stdscr.refresh(),
\* with the screen lines each part writes.  An addnstr at a line y >= h
\* raises curses.error, which nothing in inner() catches.  Columns are not
\* modelled: the terminal is taken to be wide enough for every write.

\* the lines the row loop of render_table writes: line k of row i goes to
\* yy unless yy >= limit = start_y + max_height, which ends both loops
RECURSIVE RowLineYs(_, _, _, _, _)
RowLineYs(heights, i, k, yy, limit) ==
    IF i > Len(heights) THEN {}
    ELSE IF k >= heights[i]
         THEN IF yy >= limit THEN {}
              ELSE RowLineYs(heights, i + 1, 0, yy, limit)
         ELSE IF yy >= limit THEN {}
              ELSE {yy} \cup RowLineYs(heights, i, k + 1, yy + 1, limit)

\* the lines render_table(start_y=sy, header="", max_height=mh) writes: the
\* header row at sy, then the row lines from sy + 1
TableYs(sy, heights, mh) ==
    {sy} \cup RowLineYs(heights, 1, 0, sy + 1, sy + mh)

\* (len(submenu_items) + cols - 1) // cols, with cols = max(1, submenu_cols)
RowsNeeded == (f_nitems + Max(1, f_cols) - 1) \div Max(1, f_cols)

InitFrame ==
    /\ NoSession /\ NoSolver /\ NoWrap /\ NoCrop /\ NoDraw /\ NoSpin
    /\ title \in BOOLEAN
    /\ term_h \in 1..MaxTermH
    /\ f_mode \in {"rows", "submenu"}
    /\ f_heights \in UNION {[1..n -> 1..MaxRowHeight] : n \in 0..MaxDrawRows}
    /\ f_nitems \in (IF f_mode = "submenu" THEN 0..MaxItems ELSE {0})
    /\ f_cols \in 0..MaxSubCols
    /\ frame_y = 0 /\ table_max_h = 0
    /\ table_ys = {} /\ menu_ys = {} /\ f_r = 0
    /\ fpc = "erase"

\* stdscr.erase(); y = 0; the title line; table_max_h = max(3, h - y - 3)
FrameBegin ==
    /\ fpc = "erase"
    /\ frame_y' = IF title THEN 1 ELSE 0
    /\ table_max_h' = Max(3, term_h - frame_y' - 3)
    /\ fpc' = "table"
    /\ UNCHANGED <<session_vars, solver_vars, pure_vars, spin_vars, title, term_h,
                   f_mode, f_heights, f_nitems, f_cols, table_ys, menu_ys,
                   f_r>>

\* layout = render_table(..., start_y=y, header="", max_height=table_max_h)
\* and y += min(layout["total_height"], table_max_h)
FrameTable ==
    /\ fpc = "table"
    /\ LET ys == TableYs(frame_y, f_heights, table_max_h)
       IN /\ table_ys' = {l \in ys : l < term_h}
          /\ IF \E l \in ys : l >= term_h
             THEN fpc' = "raised" /\ UNCHANGED frame_y
             ELSE /\ frame_y' = frame_y + Min(SeqSum(f_heights), table_max_h)
                  /\ fpc' = IF f_mode = "submenu" THEN "prompt" ELSE "footer"
    /\ UNCHANGED <<session_vars, solver_vars, pure_vars, spin_vars, title, term_h,
                   f_mode, f_heights, f_nitems, f_cols, table_max_h,
                   menu_ys, f_r>>

\* the " Select action" line at y; y += 1
FramePrompt ==
    /\ fpc = "prompt"
    /\ IF frame_y >= term_h
       THEN fpc' = "raised" /\ UNCHANGED <<frame_y, menu_ys>>
       ELSE /\ menu_ys' = menu_ys \cup {frame_y}
            /\ frame_y' = frame_y + 1
            /\ fpc' = IF RowsNeeded = 0 THEN "footer" ELSE "items"
    /\ UNCHANGED <<session_vars, solver_vars, pure_vars, spin_vars, title, term_h,
                   f_mode, f_heights, f_nitems, f_cols, table_max_h,
                   table_ys, f_r>>

\* one pass of "for r in range(rows_needed)": the items of row r at y;
\* y += 1
FrameItemRow ==
    /\ fpc = "items"
    /\ IF frame_y >= term_h
       THEN fpc' = "raised" /\ UNCHANGED <<frame_y, menu_ys, f_r>>
       ELSE /\ menu_ys' = menu_ys \cup {frame_y}
            /\ frame_y' = frame_y + 1
            /\ f_r' = f_r + 1
            /\ fpc' = IF f_r + 1 = RowsNeeded THEN "footer" ELSE "items"
    /\ UNCHANGED <<session_vars, solver_vars, pure_vars, spin_vars, title, term_h,
                   f_mode, f_heights, f_nitems, f_cols, table_max_h,
                   table_ys>>

\* the key help at line h - 1 and stdscr.refresh()
FrameFooter ==
    /\ fpc = "footer"
    /\ fpc' = "drawn"
    /\ UNCHANGED <<session_vars, solver_vars, pure_vars, spin_vars, title, term_h,
                   f_mode, f_heights, f_nitems, f_cols, frame_y, table_max_h,
                   table_ys, menu_ys, f_r>>

NextFrame ==
    FrameBegin \/ FrameTable \/ FramePrompt \/ FrameItemRow \/ FrameFooter

SpecFrame == InitFrame /\ [][NextFrame]_vars

\* ------------------------------------------------------------- flow.py
\* fetch_suggestions with the two threads of with_spinner: the main thread
\* (start, the request, the finally block) and the spinner thread
\* (_spinner_run), one action per statement, interleaved freely.

\* the main thread has left fetch_suggestions
Left == mpc \in {"returned", "raised"}

InitSpin ==
    /\ NoSession /\ NoSolver /\ NoWrap /\ NoCrop /\ NoDraw /\ NoFrame
    /\ spinner \in BOOLEAN
    /\ fn_raises \in BOOLEAN
    /\ stop_set = FALSE
    /\ mpc = "fetch" /\ tpc = "unstarted" /\ nframes = 0
    /\ last_out = "none" /\ late_writes = 0 /\ ws_exc = ""

\* spinner is false: return request_suggestions(...)
FetchDirect ==
    /\ mpc = "fetch" /\ ~spinner
    /\ mpc' = IF fn_raises THEN "raised" ELSE "returned"
    /\ ws_exc' = IF fn_raises THEN "Exception" ELSE ""
    /\ UNCHANGED <<session_vars, solver_vars, pure_vars, frame_vars, spinner,
                   fn_raises, stop_set, tpc, nframes, last_out, late_writes>>

\* stop = threading.Event(); t = threading.Thread(...); t.start()
StartSpinner ==
    /\ mpc = "fetch" /\ spinner
    /\ mpc' = "call" /\ tpc' = "check"
    /\ UNCHANGED <<session_vars, solver_vars, pure_vars, frame_vars, spinner,
                   fn_raises, stop_set, nframes, last_out, late_writes, ws_exc>>

\* try: return fn(*args, **kwargs): the request returns or raises, and
\* control enters the finally block
Call ==
    /\ mpc = "call"
    /\ mpc' = "finally"
    /\ ws_exc' = IF fn_raises THEN "Exception" ELSE ""
    /\ UNCHANGED <<session_vars, solver_vars, pure_vars, frame_vars, spinner,
                   fn_raises, stop_set, tpc, nframes, last_out, late_writes>>

\* finally: stop.set()
StopSet ==
    /\ mpc = "finally"
    /\ stop_set' = TRUE
    /\ mpc' = "join"
    /\ UNCHANGED <<session_vars, solver_vars, pure_vars, frame_vars, spinner,
                   fn_raises, tpc, nframes, last_out, late_writes, ws_exc>>

\* t.join() returns once the spinner thread has ended; with_spinner then
\* returns the request's value or re-raises its exception
JoinSpinner ==
    /\ mpc = "join" /\ tpc = "dead"
    /\ mpc' = IF ws_exc = "" THEN "returned" ELSE "raised"
    /\ UNCHANGED <<session_vars, solver_vars, pure_vars, frame_vars, spinner,
                   fn_raises, stop_set, tpc, nframes, last_out, late_writes,
                   ws_exc>>

\* SIGINT while the main thread is in the finally block: KeyboardInterrupt
\* is raised in stop.set() or in t.join(), which waits on a lock, and
\* leaves with_spinner
InterruptFinally ==
    /\ mpc \in {"finally", "join"}
    /\ mpc' = "raised"
    /\ ws_exc' = "KeyboardInterrupt"
    /\ UNCHANGED <<session_vars, solver_vars, pure_vars, frame_vars, spinner,
                   fn_raises, stop_set, tpc, nframes, last_out, late_writes>>

\* while not stop.is_set():
SpinCheck ==
    /\ tpc = "check"
    /\ tpc' = IF stop_set THEN "clear" ELSE "write"
    /\ UNCHANGED <<session_vars, solver_vars, pure_vars, frame_vars, spinner,
                   fn_raises, stop_set, mpc, nframes, last_out, late_writes,
                   ws_exc>>

\* sys.stdout.write(f"\r{label} {frame}"); sys.stdout.flush()
SpinWrite ==
    /\ tpc = "write" /\ nframes < MaxFrames
    /\ nframes' = nframes + 1
    /\ last_out' = "frame"
    /\ late_writes' = IF Left THEN late_writes + 1 ELSE late_writes
    /\ tpc' = "sleep"
    /\ UNCHANGED <<session_vars, solver_vars, pure_vars, frame_vars, spinner,
                   fn_raises, stop_set, mpc, ws_exc>>

\* time.sleep(0.1); i += 1
SpinSleep ==
    /\ tpc = "sleep"
    /\ tpc' = "check"
    /\ UNCHANGED <<session_vars, solver_vars, pure_vars, frame_vars, spinner,
                   fn_raises, stop_set, mpc, nframes, last_out, late_writes,
                   ws_exc>>

\* the line-clearing write after the loop; the thread ends
SpinClear ==
    /\ tpc = "clear"
    /\ last_out' = "clear"
    /\ late_writes' = IF Left THEN late_writes + 1 ELSE late_writes
    /\ tpc' = "dead"
    /\ UNCHANGED <<session_vars, solver_vars, pure_vars, frame_vars, spinner,
                   fn_raises, stop_set, mpc, nframes, ws_exc>>

NextSpin ==
    \/ FetchDirect \/ StartSpinner \/ Call \/ StopSet \/ JoinSpinner
    \/ InterruptFinally
    \/ SpinCheck \/ SpinWrite \/ SpinSleep \/ SpinClear

SpecSpin == InitSpin /\ [][NextSpin]_vars

\* ============================================================== claims
\* a step of the key handler of table.py's grid_select, taken in mode m:
\* stdscr.getch() returned the key ch'
KeyStep(m) ==
    impl = "table" /\ pc = "getch" /\ mode = m /\ exc' # "KeyboardInterrupt"

SumMin(cs) == SeqSum([n \in 1..Len(cs) |-> cs[n].min_width])

\* C1: every solved column width lies within that column's
\* [min_width, max_width] (max_width unbounded when unset), whichever branch
\* of the solver produced it.
C1_WidthsWithinBounds ==
    spc = "solved" =>
        /\ Len(layout.widths) = Len(colspecs)
        /\ \A n \in 1..Len(colspecs) :
              /\ layout.widths[n] >= colspecs[n].min_width
              /\ (colspecs[n].max_width # None =>
                      layout.widths[n] <= colspecs[n].max_width[1])

\* C1 witness: the 'content exceeds budget' branch has produced widths for
\* two columns: one sits at its minimum, the other was raised by the
\* remainder adjustment from its scaled share up to its maximum.
C1_Witness ==
    /\ spc = "solved" /\ layout.branch = "scaled" /\ Len(colspecs) = 2
    /\ \E n \in 1..2 : layout.widths[n] = colspecs[n].min_width
    /\ \E n \in 1..2 :
          /\ colspecs[n].max_width # None
          /\ colspecs[n].min_width < colspecs[n].max_width[1]
          /\ layout.widths[n] = colspecs[n].max_width[1]
          /\ layout.widths[n] >
                ScaledShare(layout.col_space, Ideal(colspecs[n], samples[n]),
                            Ideal(colspecs[1], samples[1])
                              + Ideal(colspecs[2], samples[2]))

\* C2 (as claimed): whenever the minimum widths sum to at most the budget
\* term_w - gap*(ncols-1), the solved widths plus the gaps fit in term_w.
C2_BudgetConserved ==
    (spc = "solved" /\ SumMin(colspecs) <= term_w - gap * (Len(colspecs) - 1))
        => SeqSum(layout.widths) + gap * (Len(colspecs) - 1) <= term_w

\* C3 (as claimed): in Submenu mode 'right' moves the sub-index to
\* (s+1) mod menuItemCount and 'left' to (s-1) mod menuItemCount.
C3_SubmenuLeftRightCircular ==
    [][KeyStep("submenu") =>
         /\ (ch' \in RightKeys =>
                sel_sub' = (sel_sub + 1) % Len(submenu_items))
         /\ (ch' \in LeftKeys =>
                sel_sub' = (sel_sub - 1) % Len(submenu_items))]_vars

\* C4: in Rows mode 'up' sets the row to max(0, r-1) and 'down' to
\* min(rowCount-1, r+1); 'down' on the last row and 'up' on row 0 leave the
\* highlighted row where it is.
C4_RowNavigationClamps ==
    [][KeyStep("rows") =>
         /\ (ch' \in UpKeys => sel_row' = Max(0, sel_row - 1))
         /\ (ch' \in DownKeys => sel_row' = Min(nrows - 1, sel_row + 1))
         /\ (ch' \in DownKeys /\ sel_row = nrows - 1 => sel_row' = sel_row)
         /\ (ch' \in UpKeys /\ sel_row = 0 => sel_row' = sel_row)]_vars

\* C4 witness: 'down' was pressed on the only row of a one-row table and
\* the session re-renders with row 0 still highlighted.
C4_Witness ==
    /\ impl = "table" /\ nrows = 1 /\ pc = "render" /\ mode = "rows"
    /\ ch \in DownKeys /\ sel_row = 0

\* C5 (as claimed): the highlighted row is always within [0, rowCount-1],
\* in Submenu mode the sub-index is within [0, menuItemCount-1], and a
\* returned Result carries a valid row index.
C5_IndicesInRange ==
    impl = "table" =>
        /\ sel_row \in 0..(nrows - 1)
        /\ (mode = "submenu" =>
                sel_sub \in 0..(Len(submenu_items) - 1))
        /\ (pc = "done" /\ result.row # None =>
                result.row[1] \in 0..(nrows - 1))

\* C6: confirm in Rows mode ends the session with
\* ("row-selected", currentRow, None) exactly when there is no provider or
\* the provider's list for the current row is empty.
C6_RowSelectedIffNoMenu ==
    [][KeyStep("rows") =>
         /\ (pc' = "done" /\ result'.action = "row-selected")
               <=> (ch' \in EnterKeys /\ ~ProviderRaises(sel_row)
                      /\ CallProvider(sel_row) = <<>>)
         /\ (ch' \in EnterKeys /\ pc' = "done" =>
               result' = Result("row-selected", Some(sel_row), None))]_vars

\* C6 witness: with no provider, confirm on the last row of the longest
\* table (reached by 'down' presses) returned row-selected for that row.
C6_Witness ==
    /\ impl = "table" /\ ~has_provider /\ nrows = MaxRows /\ pc = "done"
    /\ ch \in EnterKeys
    /\ result = Result("row-selected", Some(MaxRows - 1), None)

\* C7: confirm in Rows mode with a non-empty provider list does not end the
\* session: the mode becomes Submenu, the row stays, the sub-index is 0,
\* whatever sub-index an earlier Submenu visit left behind.
C7_ConfirmEntersSubmenu ==
    [][(KeyStep("rows") /\ ch' \in EnterKeys
            /\ has_provider /\ menu[sel_row] > 0) =>
         /\ pc' = "render" /\ result' = NoResult
         /\ mode' = "submenu"
         /\ sel_row' = sel_row
         /\ sel_sub' = 0
         /\ Len(submenu_items') = menu[sel_row]]_vars

\* C7 witness: the sub-menu of a row below the first has just been entered
\* with more than one item and sub-index 0.
C7_Witness ==
    /\ impl = "table" /\ pc = "render" /\ mode = "submenu"
    /\ ch \in EnterKeys /\ sel_sub = 0 /\ sel_row > 0
    /\ Len(submenu_items) > 1

C9_SubmenuConfirmResult ==
    [][(impl = "table" /\ mode = "submenu") =>
         /\ sel_row' = sel_row
         /\ (KeyStep("submenu") /\ ch' \in EnterKeys =>
                /\ pc' = "done"
                /\ result' = Result("submenu-selected",
                                    Some(sel_row), Some(sel_sub)))]_vars

\* C9 witness: a session returned submenu-selected for a row below the
\* first and an item after the first.
C9_Witness ==
    /\ impl = "table" /\ pc = "done" /\ ch \in EnterKeys
    /\ result.action = "submenu-selected"
    /\ result.row = Some(sel_row) /\ sel_row > 0
    /\ result.sub = Some(sel_sub) /\ sel_sub > 0

\* C10: a returned Result has a tag among row-selected, submenu-selected
\* and quit, no row index exactly when the tag is quit, and a sub-index
\* exactly when the tag is submenu-selected.
C10_ResultWellFormed ==
    IF pc = "done"
    THEN /\ result.action \in {"row-selected", "submenu-selected", "quit"}
         /\ (result.row = None <=> result.action = "quit")
         /\ (result.sub # None <=> result.action = "submenu-selected")
    ELSE result = NoResult

\* C10 witness: a session returned the quit Result.
C10_Witness ==
    /\ pc = "done" /\ result.action = "quit"
    /\ result.row = None /\ result.sub = None

\* C11: on every exit path of a selection session (a returned Result, an
\* exception of the provider or of a draw call, an interrupt during the key
\* read) the tty is back in its prior mode when control reaches the caller:
\* no terminated state is still in raw or cbreak mode.
C11_TerminalRestored ==
    pc \in {"done", "raised", "returned"} => term_mode = PriorMode

\* C11 witness: a session interrupted in Submenu mode has ended with the
\* exception and the tty is in its prior mode.
C11_Witness ==
    /\ impl = "table" /\ pc = "raised" /\ exc = "KeyboardInterrupt"
    /\ mode = "submenu" /\ term_mode = PriorMode

\* C12: an interrupt that arrives while grid_select waits for a key is
\* treated like quit: the session ends with ("quit", None, None) and no
\* error reaches the caller.
C12_InterruptEndsAsQuit ==
    [][(impl = "table" /\ pc = "getch" /\ exc' = "KeyboardInterrupt") =>
         (pc' = "done" /\ result' = Result("quit", None, None))]_vars

\* the words of a line
Tokens(line) == split(line)

\* C13 (as claimed): wrapping a text that is one whitespace-free token
\* longer than the width yields exactly one line, holding the whole token:
\* no empty line before or after it and no fragment of it.
C13_LongTokenOneLine ==
    (wpc = "wrapped" /\ split(text) = <<text>> /\ Len(text) > wrap_width)
        => lines = <<text>>

\* C14 (as claimed): wrapping is idempotent: the wrapped lines, joined by
\* newlines and wrapped again at the same width, are the same lines.
C14_WrapIdempotent ==
    wpc = "rewrapped" => relines = lines

\* C15: every wrapped line is at most wrap_width wide or is one single
\* token longer than wrap_width: no line of two or more tokens is wider
\* than wrap_width.
C15_LinesWithinWidth ==
    wpc = "wrapped" =>
        \A n \in 1..Len(lines) :
            \/ Len(lines[n]) <= wrap_width
            \/ Tokens(lines[n]) = <<lines[n]>>

\* C15 witness: a wrapped cell has a line that is one token longer than
\* the width, followed by a line holding the next token within the width.
C15_Witness ==
    /\ wpc = "wrapped"
    /\ \E n \in 1..(Len(lines) - 1) :
          /\ Tokens(lines[n]) = <<lines[n]>> /\ Len(lines[n]) > wrap_width
          /\ lines[n + 1] # <<>> /\ Len(lines[n + 1]) <= wrap_width

\* C16: for every string s of visible characters and escape sequences and
\* every width w >= 2, with and without the ellipsis flag,
\* visible_len(crop_visible(s, w)) = min(w, visible_len(s)); when the string
\* is truncated with the ellipsis flag set, the result's last visible
\* character is the ellipsis glyph and its visible length is exactly w.
C16_CropLength ==
    (cpc = "cropped" /\ crop_width >= 2) =>
        /\ visible_len(crop_out) = Min(crop_width, visible_len(crop_s))
        /\ (crop_ellipsis /\ visible_len(crop_s) > crop_width =>
               LET v == strip_ansi(crop_out)
               IN Len(v) = crop_width /\ v[Len(v)] = Ellipsis)

\* C16 witness: a string with an escape sequence in front of more visible
\* characters than the width was cropped and ends in the ellipsis glyph.
C16_Witness ==
    /\ cpc = "cropped" /\ crop_ellipsis /\ crop_width >= 2
    /\ AnsiMatchEnd(crop_s, 1) # 0
    /\ visible_len(crop_s) > crop_width
    /\ crop_out # <<>> /\ crop_out[Len(crop_out)] = Ellipsis
    /\ AnsiMatchEnd(crop_out, 1) # 0

\* the cell line of the last write lies in the highlighted row
InHighlightRow == highlight_row # None /\ last_write.i = highlight_row[1]

\* the cell of the last write is the highlighted cell
IsHighlightCell ==
    highlight_cell # None /\ highlight_cell = <<last_write.i, last_write.j>>

\* the screen line of line k of row i
LineY(i, k) ==
    start_y + (IF header THEN 1 ELSE 0)
      + SeqSum([n \in 1..i |-> row_heights[n]]) + k

\* the cell lines above the clip
VisibleCellLines ==
    {<<i, k, j>> \in (0..(Len(row_heights) - 1)) \X (0..(MaxRowHeight - 1))
                       \X (0..(d_ncols - 1)) :
        k < row_heights[i + 1] /\ LineY(i, k) < start_y + max_height}

\* C17: every cell line of the highlighted row is written with exactly
\* highlight_attr, whatever the two callbacks return or raise; every cell
\* line that is not highlighted is written with
\* normal_attr | style_fn result | line_style_fn result.
C17_HighlightOverridesStyle ==
    last_write.drawn =>
        /\ (InHighlightRow => last_write.attr = highlight_attr)
        /\ (~InHighlightRow /\ ~IsHighlightCell
              /\ last_write.style.kind \in {"ok", "none"}
              /\ last_write.line.kind \in {"ok", "none"}
             => last_write.attr = normal_attr \cup last_write.style.attr
                                    \cup last_write.line.attr)

\* C17 witness: a cell line of the highlighted row was written while
\* style_fn returned bold and line_style_fn raised.
C17_Witness ==
    /\ last_write.drawn /\ InHighlightRow
    /\ last_write.style = Returned({"A_BOLD"}) /\ last_write.line = Raises
    /\ last_write.attr = highlight_attr /\ normal_attr # {}

\* C18: a style callback that raises or returns a value that is no integer
\* never aborts render_table: it adds no style to that cell line, the other
\* callback's style still applies, every remaining cell line is drawn and
\* the layout is returned.
C18_CallbackFailureContained ==
    /\ dpc # "raised"
    /\ (last_write.drawn /\ ~InHighlightRow /\ ~IsHighlightCell =>
          /\ (last_write.style.kind \in {"raise", "invalid"} =>
                 last_write.attr = normal_attr \cup last_write.line.attr)
          /\ (last_write.line.kind \in {"raise", "invalid"} =>
                 last_write.attr = normal_attr \cup last_write.style.attr))
    /\ (dpc = "returned" => written = VisibleCellLines)

\* C18 witness: render_table returned after drawing several cell lines, the
\* last of them with style_fn raising and line_style_fn returning dim.
C18_Witness ==
    /\ dpc = "returned" /\ Cardinality(written) > 2
    /\ last_write.style = Raises /\ last_write.line = Returned({"A_DIM"})
    /\ last_write.attr = normal_attr \cup {"A_DIM"}

\* C19: when the minimum widths sum to more than the budget
\* term_w - gap*(ncols-1), the solver still returns widths and every solved
\* width equals that column's min_width, for every mix of wrappable and
\* non-wrappable columns and of ideal widths.
C19_MinimumsWhenOverBudget ==
    (spc = "solved" /\ SumMin(colspecs) > term_w - gap * (Len(colspecs) - 1))
        => /\ Len(layout.widths) = Len(colspecs)
           /\ \A n \in 1..Len(colspecs) :
                 layout.widths[n] = colspecs[n].min_width

\* C20: between a confirm in Rows mode and the next return to Rows mode or
\* the end of the session the provider is called exactly once, whatever
\* keys, timeouts and re-renders happen in Submenu mode.
C20_ProviderCalledOncePerVisit ==
    (impl = "table" /\ mode = "submenu") => provider_calls = 1

\* C23: in Submenu mode 'up' sets the sub-index to max(0, s - cols) and
\* 'down' to min(menuItemCount - 1, s + cols), with cols =
\* max(1, submenu_cols): a move by the grid stride, clamped at both ends,
\* never wrapping.
C23_SubmenuVerticalStride ==
    [][KeyStep("submenu") =>
         LET cols == Max(1, submenu_cols)
         IN /\ (ch' \in UpKeys => sel_sub' = Max(0, sel_sub - cols))
            /\ (ch' \in DownKeys =>
                   sel_sub' = Min(Len(submenu_items) - 1, sel_sub + cols))]_vars

\* C23 witness: with a stride of two or more, 'down' has moved the
\* sub-index from the first item to the item one stride further.
C23_Witness ==
    /\ impl = "table" /\ mode = "submenu" /\ pc = "render"
    /\ ch \in DownKeys /\ submenu_cols >= 2
    /\ sel_sub = submenu_cols /\ sel_sub < Len(submenu_items)

\* the keys some branch of the key handler names in mode m
BoundKeys(m) ==
    IF m = "rows" THEN UpKeys \cup DownKeys \cup EnterKeys \cup CancelKeys
    ELSE UpKeys \cup DownKeys \cup LeftKeys \cup RightKeys \cup EnterKeys
           \cup CancelKeys

\* C26: a session returns a Result only on a confirm or quit key: a read
\* timeout (-1), a resize event or a key not bound in the current mode
\* leaves the mode, the highlighted row and the sub-index unchanged, returns
\* no Result and leads to a re-render before the next read.
C26_OnlyConfirmOrQuitEnds ==
    [][(impl = "table" /\ pc = "getch") =>
         /\ (pc' = "done" => ch' \in EnterKeys \cup CancelKeys)
         /\ (KeyStep(mode) /\ ch' \notin BoundKeys(mode) =>
                /\ <<mode, sel_row, sel_sub, submenu_items>>' =
                       <<mode, sel_row, sel_sub, submenu_items>>
                /\ result' = NoResult
                /\ pc' = "render")]_vars

\* C26 witness: a resize event was read in Submenu mode on a row and an
\* item below the first; the session is about to re-render that state.
C26_Witness ==
    /\ impl = "table" /\ pc = "render" /\ mode = "submenu"
    /\ ch = KEY_RESIZE /\ sel_row > 0 /\ sel_sub > 0
    /\ result = NoResult

\* C29 (as claimed): crop_visible(s, w) returns s unchanged, escape
\* sequences included, whenever visible_len(s) <= w and w >= 1; a style
\* reset after the last visible character is kept when visible_len(s) = w.
C29_CropIdentityWhenFits ==
    (cpc = "cropped" /\ crop_width >= 1 /\ visible_len(crop_s) <= crop_width)
        => crop_out = crop_s

\* term_w - gap * (ncols - 1): the width left for the columns
Budget == term_w - gap * (Len(colspecs) - 1)

IdealOf(n) == Ideal(colspecs[n], samples[n])

\* C21: when the ideal widths sum to at most the budget, every non-wrap
\* column gets exactly its ideal width, the leftover goes to wrap columns
\* only, and afterwards the widths sum to exactly the budget or every wrap
\* column is at its max_width; the widths never sum to more than the
\* budget.
C21_FitsBranchLeftover ==
    (spc = "solved"
       /\ SeqSum([n \in 1..Len(colspecs) |-> IdealOf(n)]) <= Budget)
    => /\ layout.branch = "fits"
       /\ \A n \in 1..Len(colspecs) :
             IF colspecs[n].wrap THEN layout.widths[n] >= IdealOf(n)
             ELSE layout.widths[n] = IdealOf(n)
       /\ SeqSum(layout.widths) <= Budget
       /\ \/ SeqSum(layout.widths) = Budget
          \/ \A n \in 1..Len(colspecs) :
                colspecs[n].wrap =>
                   /\ colspecs[n].max_width # None
                   /\ layout.widths[n] = colspecs[n].max_width[1]

\* C21 witness: a no-wrap column and an uncapped wrap column fit with room
\* to spare; the wrap column holds all the leftover.
C21_Witness ==
    /\ spc = "solved" /\ layout.branch = "fits" /\ Len(colspecs) = 2
    /\ ~colspecs[1].wrap /\ colspecs[2].wrap
    /\ colspecs[2].max_width = None
    /\ layout.widths[1] = IdealOf(1)
    /\ layout.widths[2] > IdealOf(2)
    /\ SeqSum(layout.widths) = Budget

\* C22 (as claimed): when the ideal widths sum to more than the budget and
\* the minimum widths to at most the budget, the remainder adjustment ends
\* before its 10000-pass cap with the widths summing to exactly the budget.
C22_AdjustmentReachesBudget ==
    (spc = "solved"
       /\ SeqSum([n \in 1..Len(colspecs) |-> IdealOf(n)]) > Budget
       /\ SumMin(colspecs) <= Budget)
    => /\ layout.branch = "scaled"
       /\ layout.j <= LoopCap
       /\ SeqSum(layout.widths) = Budget

\* the cells that had at least one line written
RenderedCells == {<<c[1], c[3]>> : c \in written}

\* C24 (as claimed): render_table never writes a table line, header or row
\* line, at a y >= start_y + max_height: row lines are written top to
\* bottom in order, and the writing stops at the first line that would
\* reach start_y + max_height, so the written lines are a prefix of the
\* table's display lines.
C24_NothingBelowClip ==
    /\ (header_y # None => header_y[1] < start_y + max_height)
    /\ (last_write.drawn =>
          /\ last_write.y < start_y + max_height
          /\ last_write.y = LineY(last_write.i, last_write.k))
    /\ (dpc = "returned" => written = VisibleCellLines)

\* C25 (as claimed): in one render pass style_fn is called exactly once
\* per rendered cell, whatever the row's height, and line_style_fn exactly
\* once per drawn line of each cell.
C25_StyleFnOncePerCell ==
    dpc = "returned" =>
        /\ (style_fn => style_calls = [c \in RenderedCells |-> 1])
        /\ (line_style_fn => line_calls = [c \in written |-> 1])

\* C28 (as claimed): in a frame drawn in Submenu mode, the 'Select action'
\* prompt line and the sub-menu item lines lie strictly below every table
\* line of the same frame, the header line included.
C28_SubmenuBelowTable ==
    \A m \in menu_ys : \A t \in table_ys : m > t

\* C27 (as claimed): when with_spinner has returned or raised, the spinner
\* thread has terminated, its last write is the line-clearing write, and
\* it has written nothing since; so no spinner write falls into anything
\* main() does after fetch_suggestions.
C27_SpinnerQuiescent ==
    (Left /\ spinner) =>
        /\ tpc = "dead"
        /\ last_out = "clear"
        /\ late_writes = 0
====
